---- MODULE Spec2Model ----
(***************************************************************************)
(* Course-administration scripts of the repository, as state machines.     *)
(*                                                                         *)
(*   Spec      github_student_inviter/invite_students.py  (main and the    *)
(*             invitation loop invite_to_organization)                     *)
(*   FairSpec  invite_to_organization alone, with the fairness a           *)
(*             sequential program has: a step that can be taken is taken   *)
(*   PeerSpec  peer_review/calculate-peer-review-grade.py (main)           *)
(*   GradeSpec peer_review/calculate-final-score.py (process_files)        *)
(*                                                                         *)
(* Numbers of the grade pipeline are exact rationals <<num, den>>; NaN is  *)
(* the value NaN.  Strings stand for themselves.                           *)
(***************************************************************************)
EXTENDS Integers, Sequences, FiniteSets, TLC

VARIABLES
    \* ---- invite_students.py ----
    pc,                    \* position of main()
    exit_code,             \* -1 while running, else the process exit code
    github_token,          \* os.getenv('GITHUB_TOKEN'), "" when unset
    org_name,              \* os.getenv('GITHUB_ORG') or the prompted name
    argv,                  \* sys.argv
    csv_path,
    dry_run,
    df,                    \* the loaded DataFrame, NoDf before load_csv
    emails,                \* result of get_student_emails
    prompts,               \* the input() prompts issued so far, in order
    i,                     \* emails processed so far by the loop
    success_count,
    already_member_count,
    error_count,
    trace,                 \* events of the loop: post, log, sleep
    summary,               \* the printed summary, NoSummary before it
    user,                  \* the authenticated user (line 204), NoUser before
    \* ---- calculate-peer-review-grade.py ----
    ppc,                   \* position of main()
    all_students,          \* the roster (groups_file)
    dt,                    \* the survey rows after the two header rows
    survey_columns,        \* the slots x whose Q1_x_k and Q2_x_1 columns exist
    output,                \* the output dataframe
    final_output,          \* the rows written to output_file
    \* ---- calculate-final-score.py ----
    gpc,                   \* position of process_files()
    input_file,            \* the gradebook as it was read
    multiplier_df,         \* the score table
    main_df,               \* the gradebook being updated
    email_multiplier,      \* dict: email -> multiplier
    output_file            \* the gradebook written, NoFile before that

inviteVars == <<pc, exit_code, github_token, org_name, argv, csv_path, dry_run,
                df, emails, prompts, i, success_count, already_member_count,
                error_count, trace, summary, user>>
peerVars == <<ppc, all_students, dt, survey_columns, output, final_output>>
gradeVars == <<gpc, input_file, multiplier_df, main_df, email_multiplier,
               output_file>>
vars == <<inviteVars, peerVars, gradeVars>>

(***************************************************************************)
(* Bounds                                                                  *)
(***************************************************************************)
MaxRows == 2          \* rows of the Canvas export
MaxStudents == 4      \* students of the roster

(***************************************************************************)
(* invite_students.py: data                                                *)
(***************************************************************************)
NA == "<NA>"                       \* a missing cell of the CSV
CellValues == {NA, " a@x.edu ", "b@x.edu", "Doe, Jane"}
LoginCells == {NA, " a@x.edu ", "b@x.edu"}

\* str.strip() on the cell texts of the model
Strip(s) == IF s = " a@x.edu " THEN "a@x.edu" ELSE s

\* '@' in e
HasAt(s) == s \in {"a@x.edu", " a@x.edu ", "b@x.edu"}

DefaultEmailColumn == "SIS Login ID"
EmailColumns == {DefaultEmailColumn, "Email"}

CellSeqs == UNION {[1..n -> LoginCells] : n \in 0..MaxRows}

\* A Canvas export: a "Student" column, and possibly one column of logins.
MkDf(c, cells) ==
    [columns |-> IF c = "none" THEN {"Student"} ELSE {"Student", c},
     login   |-> cells]

DataFrames == {MkDf(c, cells) : c \in EmailColumns \cup {"none"}, cells \in CellSeqs}

NoDf == [columns |-> {}, login |-> <<>>]

\* df[col] of the model's frames
Column(d, col) ==
    IF col = "Student" THEN [k \in 1..Len(d.login) |-> "Doe, Jane"] ELSE d.login

RECURSIVE FilterSeq(_, _)
FilterSeq(s, keep) ==
    IF s = <<>> THEN <<>>
    ELSE IF keep[Head(s)] THEN <<Head(s)>> \o FilterSeq(Tail(s), keep)
         ELSE FilterSeq(Tail(s), keep)

\* lines 54-56: dropna, astype(str), strip, then keep the texts with an '@'
ExtractEmails(col) ==
    LET present  == FilterSeq(col, [c \in CellValues |-> c # NA])
        stripped == [k \in 1..Len(present) |-> Strip(present[k])]
        texts    == {Strip(c) : c \in CellValues}
    IN FilterSeq(stripped,
                 [e \in texts |-> e # "" /\ e # "nan" /\ HasAt(e)])

\* sys.argv after the script name
ArgLists == { <<>>, <<"f.csv">>, <<"f.csv", "--dry-run">>, <<"f.csv", "-n">>,
              <<"missing.csv">>, <<"-n">> }
PathAnswers == {"", "f.csv", "missing.csv"}
ColumnAnswers == {"Email", "Student", "login"}
ConfirmAnswers == {"yes", "y", " YES ", "no", ""}

\* .strip().lower() on the confirmation answers of the model
StripLower(s) == IF s = " YES " THEN "yes" ELSE s

\* What one requests.post call does: a response, or an exception raised.
Bodies == {"badjson", "plain", "msg_already", "err_already"}
Outcomes ==
    {[kind |-> "response", status |-> 201, body |-> "plain"],
     [kind |-> "response", status |-> 404, body |-> "plain"],
     [kind |-> "response", status |-> 403, body |-> "plain"],
     [kind |-> "response", status |-> 200, body |-> "plain"],
     [kind |-> "response", status |-> 500, body |-> "badjson"],
     [kind |-> "exception", status |-> 0, body |-> "none"]}
    \cup {[kind |-> "response", status |-> 422, body |-> b] : b \in Bodies}

NoSummary == [total |-> -1, success |-> -1, already |-> -1, errors |-> -1]

(***************************************************************************)
(* invite_students.py: invite_to_organization                              *)
(***************************************************************************)
\* line 109: 'already' in one of the errors, or in the message
IsAlreadyMember(body) == body \in {"msg_already", "err_already"}

\* Mutant of Classify: every 2xx status is taken for a success.
ClassifyAny2xx(o) ==
    IF o.status >= 200 /\ o.status < 300 THEN "invited"
    ELSE IF o.status = 422
         THEN (IF IsAlreadyMember(o.body) THEN "already" ELSE "error_422")
    ELSE IF o.status = 404 THEN "not_found"
    ELSE IF o.status = 403 THEN "forbidden"
    ELSE "other_error"

\* lines 100-131: the branch taken for a response, named by what it prints
Classify(o) ==
    IF o.status = 201 THEN "invited"
    ELSE IF o.status = 422
         THEN (IF IsAlreadyMember(o.body) THEN "already" ELSE "error_422")
    ELSE IF o.status = 404 THEN "not_found"
    ELSE IF o.status = 403 THEN "forbidden"
    ELSE "other_error"

\* lines 104, 129: response.json() raises on a body that is no JSON document
BranchRaises(o) ==
    \/ o.status = 422 /\ o.body = "badjson"
    \/ o.status \notin {201, 422, 404, 403} /\ o.body = "badjson"

\* the counter a printed branch increments (lines 102, 113, 121, 124, 127, 131)
CounterOf(label) ==
    IF label = "invited" THEN "success"
    ELSE IF label = "already" THEN "already"
    ELSE "error"

\* Mutant of Iteration: an exception is logged but no counter is raised.
IterationExceptionUncounted(dry, o) ==
    IF dry
    THEN [label |-> "would_invite", counter |-> "success",
          posted |-> FALSE, slept |-> FALSE]
    ELSE IF o.kind = "exception" \/ BranchRaises(o)
    THEN [label |-> "network_error", counter |-> "none",
          posted |-> TRUE, slept |-> FALSE]
    ELSE [label |-> Classify(o), counter |-> CounterOf(Classify(o)),
          posted |-> TRUE, slept |-> TRUE]

\* Mutant of Iteration: the dry_run test is missing, the call is always made.
IterationIgnoresDryRun(dry, o) ==
    IF o.kind = "exception"
    THEN [label |-> "network_error", counter |-> "error",
          posted |-> TRUE, slept |-> FALSE]
    ELSE IF BranchRaises(o)
    THEN [label |-> "unexpected_error", counter |-> "error",
          posted |-> TRUE, slept |-> FALSE]
    ELSE [label |-> Classify(o), counter |-> CounterOf(Classify(o)),
          posted |-> TRUE, slept |-> TRUE]

\* lines 85-141: one iteration of the loop, for what requests.post does
Iteration(dry, o) ==
    IF dry
    THEN [label |-> "would_invite", counter |-> "success",
          posted |-> FALSE, slept |-> FALSE]
    ELSE IF o.kind = "exception"
    THEN [label |-> "network_error", counter |-> "error",
          posted |-> TRUE, slept |-> FALSE]
    ELSE IF BranchRaises(o)
    THEN [label |-> "unexpected_error", counter |-> "error",
          posted |-> TRUE, slept |-> FALSE]
    ELSE [label |-> Classify(o), counter |-> CounterOf(Classify(o)),
          posted |-> TRUE, slept |-> TRUE]

\* Mutant of NextIndex: the try block is around the loop, so an exception
\* ends the loop.
NextIndexStopOnException(k, r) ==
    IF r.label \in {"network_error", "unexpected_error"} THEN Len(emails) ELSE k + 1

\* line 84: the for loop moves on to the next email
NextIndex(k, r) == k + 1

PostEv(k, o)  == [ev |-> "post", i |-> k, email |-> emails[k], status |-> o.status,
                  body |-> o.body, label |-> "-"]
LogEv(k, r)   == [ev |-> "log", i |-> k, email |-> emails[k], status |-> 0,
                  body |-> "-", label |-> r.label]
SleepEv(k)    == [ev |-> "sleep", i |-> k, email |-> emails[k], status |-> 0,
                  body |-> "-", label |-> "-"]

NoUser == ""

Exit(code) ==
    /\ pc' = "done"
    /\ exit_code' = code

\* lines 84-141
LoopBody ==
    /\ pc = "invite"
    /\ i < Len(emails)
    /\ \E o \in (IF dry_run THEN {CHOOSE x \in Outcomes : x.status = 201} ELSE Outcomes) :
         LET k == i + 1
             r == Iteration(dry_run, o)
         IN /\ trace' = trace
                   \o (IF r.posted THEN <<PostEv(k, o)>> ELSE <<>>)
                   \o <<LogEv(k, r)>>
                   \o (IF r.slept THEN <<SleepEv(k)>> ELSE <<>>)
            /\ success_count' = success_count + (IF r.counter = "success" THEN 1 ELSE 0)
            /\ already_member_count' =
                   already_member_count + (IF r.counter = "already" THEN 1 ELSE 0)
            /\ error_count' = error_count + (IF r.counter = "error" THEN 1 ELSE 0)
            /\ i' = NextIndex(i, r)
    /\ UNCHANGED <<pc, exit_code, github_token, org_name, argv, csv_path, dry_run,
                   df, emails, prompts, summary,
                   user>>

\* lines 143-150
Summary ==
    /\ pc = "invite"
    /\ i = Len(emails)
    /\ summary' = [total |-> Len(emails), success |-> success_count,
                   already |-> already_member_count, errors |-> error_count]
    /\ pc' = "summary"
    /\ UNCHANGED <<exit_code, github_token, org_name, argv, csv_path, dry_run, df,
                   emails, prompts, i, success_count, already_member_count,
                   error_count, trace,
                   user>>

(***************************************************************************)
(* invite_students.py: main                                                *)
(***************************************************************************)
\* lines 160-174
CheckEnv ==
    /\ pc = "env"
    /\ \E tok \in {"", "ghp_token"}, org \in {"", "cs361"}, ans \in {"", "cs361"} :
         /\ github_token' = tok
         /\ IF tok = ""
            THEN /\ Exit(1)
                 /\ org_name' = org
                 /\ prompts' = prompts
            ELSE IF org = ""
            THEN /\ org_name' = ans
                 /\ prompts' = Append(prompts, [q |-> "org", a |-> ans])
                 /\ IF ans = "" THEN Exit(1)
                    ELSE pc' = "argv" /\ exit_code' = exit_code
            ELSE /\ org_name' = org
                 /\ prompts' = prompts
                 /\ pc' = "argv"
                 /\ exit_code' = exit_code
    /\ UNCHANGED <<argv, csv_path, dry_run, df, emails, i, success_count,
                   already_member_count, error_count, trace, summary,
                   user>>

\* lines 177-188
GetCsvPath ==
    /\ pc = "argv"
    /\ \E args \in ArgLists, ans \in PathAnswers :
         /\ argv' = <<"invite_students.py">> \o args
         /\ dry_run' = (\E k \in 1..Len(argv') : argv'[k] \in {"--dry-run", "-n"})
         /\ IF Len(argv') < 2
            THEN /\ prompts' = Append(prompts, [q |-> "csv", a |-> ans])
                 /\ csv_path' = ans
                 /\ IF ans = "" THEN Exit(1)
                    ELSE pc' = "load" /\ exit_code' = exit_code
            ELSE /\ prompts' = prompts
                 /\ csv_path' = argv'[2]
                 /\ pc' = "load"
                 /\ exit_code' = exit_code
    /\ UNCHANGED <<github_token, org_name, df, emails, i, success_count,
                   already_member_count, error_count, trace, summary,
                   user>>

\* lines 191, 19-31: only f.csv exists; it may be no CSV at all
LoadCsv ==
    /\ pc = "load"
    /\ \/ /\ csv_path = "f.csv"
          /\ \E d \in DataFrames :
               /\ df' = d
               /\ pc' = "emails"
               /\ exit_code' = exit_code
       \/ /\ df' = df
          /\ Exit(1)
    /\ UNCHANGED <<github_token, org_name, argv, csv_path, dry_run, emails, prompts,
                   i, success_count, already_member_count, error_count, trace,
                   summary,
                   user>>

\* Mutant of NoEmails: the empty list is not checked.
NoEmailsUnchecked(found) == FALSE

\* line 196: not emails
NoEmails(found) == found = <<>>

\* lines 194-198, 34-59
GetStudentEmails ==
    /\ pc = "emails"
    /\ \E ans \in ColumnAnswers :
         LET asked  == DefaultEmailColumn \notin df.columns
             column == IF asked THEN ans ELSE DefaultEmailColumn
             found  == ExtractEmails(Column(df, column))
         IN /\ prompts' = IF asked THEN Append(prompts, [q |-> "column", a |-> ans])
                           ELSE prompts
            /\ IF column \notin df.columns
               THEN emails' = emails /\ Exit(1)
               ELSE /\ emails' = found
                    /\ IF NoEmails(found) THEN Exit(1)
                       ELSE pc' = "auth" /\ exit_code' = exit_code
    /\ UNCHANGED <<github_token, org_name, argv, csv_path, dry_run, df, i,
                   success_count, already_member_count, error_count, trace, summary,
                   user>>

\* lines 200-208
Authenticate ==
    /\ pc = "auth"
    /\ \E ok \in BOOLEAN :
         IF ok THEN pc' = "confirm" /\ exit_code' = exit_code /\ user' = "instructor"
         ELSE Exit(1) /\ user' = user
    /\ UNCHANGED <<github_token, org_name, argv, csv_path, dry_run, df, emails,
                   prompts, i, success_count, already_member_count, error_count,
                   trace, summary>>

\* Mutant of Confirmed: only an explicit no cancels.
ConfirmedUnlessNo(ans) == StripLower(ans) # "no"

\* lines 213-214: the answers that let the run go on
Confirmed(ans) == StripLower(ans) \in {"yes", "y"}

\* lines 210-216
Confirm ==
    /\ pc = "confirm"
    /\ IF dry_run
       THEN /\ prompts' = prompts
            /\ pc' = "invite"
            /\ exit_code' = exit_code
       ELSE \E ans \in ConfirmAnswers :
              /\ prompts' = Append(prompts, [q |-> "confirm", a |-> ans])
              /\ IF Confirmed(ans)
                 THEN pc' = "invite" /\ exit_code' = exit_code
                 ELSE Exit(0)
    /\ UNCHANGED <<github_token, org_name, argv, csv_path, dry_run, df, emails, i,
                   success_count, already_member_count, error_count, trace, summary,
                   user>>

\* lines 219-222: invite_to_organization has returned; main ends
Finish ==
    /\ pc = "summary"
    /\ Exit(0)
    /\ UNCHANGED <<github_token, org_name, argv, csv_path, dry_run, df, emails,
                   prompts, i, success_count, already_member_count, error_count,
                   trace, summary,
                   user>>

InviteInit ==
    /\ pc = "env"
    /\ exit_code = -1
    /\ github_token = ""
    /\ org_name = ""
    /\ argv = <<>>
    /\ csv_path = ""
    /\ dry_run = FALSE
    /\ df = NoDf
    /\ emails = <<>>
    /\ prompts = <<>>
    /\ i = 0
    /\ success_count = 0
    /\ already_member_count = 0
    /\ error_count = 0
    /\ trace = <<>>
    /\ summary = NoSummary
    /\ user = NoUser

PeerIdle ==
    /\ ppc = "idle"
    /\ all_students = <<>>
    /\ dt = <<>>
    /\ survey_columns = {}
    /\ output = <<>>
    /\ final_output = <<>>

\* calculate-final-score.py is not running
GradeIdle ==
    /\ gpc = "idle"
    /\ input_file = <<>>
    /\ multiplier_df = <<>>
    /\ main_df = <<>>
    /\ email_multiplier = <<>>
    /\ output_file = <<>>

\* invite_students.py is not running
InviteIdle ==
    /\ pc = "idle"
    /\ exit_code = -1
    /\ github_token = ""
    /\ org_name = ""
    /\ argv = <<>>
    /\ csv_path = ""
    /\ dry_run = FALSE
    /\ df = NoDf
    /\ emails = <<>>
    /\ prompts = <<>>
    /\ i = 0
    /\ success_count = 0
    /\ already_member_count = 0
    /\ error_count = 0
    /\ trace = <<>>
    /\ summary = NoSummary
    /\ user = NoUser

Init == InviteInit /\ PeerIdle /\ GradeIdle

Next ==
    \/ (CheckEnv /\ UNCHANGED <<peerVars, gradeVars>>)
    \/ (GetCsvPath /\ UNCHANGED <<peerVars, gradeVars>>)
    \/ (LoadCsv /\ UNCHANGED <<peerVars, gradeVars>>)
    \/ (GetStudentEmails /\ UNCHANGED <<peerVars, gradeVars>>)
    \/ (Authenticate /\ UNCHANGED <<peerVars, gradeVars>>)
    \/ (Confirm /\ UNCHANGED <<peerVars, gradeVars>>)
    \/ (LoopBody /\ UNCHANGED <<peerVars, gradeVars>>)
    \/ (Summary /\ UNCHANGED <<peerVars, gradeVars>>)
    \/ (Finish /\ UNCHANGED <<peerVars, gradeVars>>)

Spec == Init /\ [][Next]_vars

\* invite_to_organization on its own: called with any list of emails, in a
\* dry or a real run (lines 62-82 have run).
EmailLists == UNION {[1..n -> {"a@x.edu", "b@x.edu"}] : n \in 0..MaxRows}

LoopInit ==
    /\ pc = "invite"
    /\ exit_code = -1
    /\ github_token = "ghp_token"
    /\ org_name = "cs361"
    /\ argv = <<>>
    /\ csv_path = ""
    /\ dry_run \in BOOLEAN
    /\ df = NoDf
    /\ emails \in EmailLists
    /\ prompts = <<>>
    /\ i = 0
    /\ success_count = 0
    /\ already_member_count = 0
    /\ error_count = 0
    /\ trace = <<>>
    /\ summary = NoSummary
    /\ user = "instructor"
    /\ PeerIdle
    /\ GradeIdle

LoopNext ==
    \/ (LoopBody /\ UNCHANGED <<peerVars, gradeVars>>)
    \/ (Summary /\ UNCHANGED <<peerVars, gradeVars>>)

\* A sequential program keeps running while it has a next statement.
FairSpec == LoopInit /\ [][LoopNext]_vars /\ WF_vars(LoopNext)

(***************************************************************************)
(* calculate-peer-review-grade.py: numbers                                 *)
(***************************************************************************)
RECURSIVE GCD(_, _)
GCD(a, b) == IF b = 0 THEN a ELSE GCD(b, a % b)

Abs(a) == IF a < 0 THEN -a ELSE a

\* the rational n/d in lowest terms, d > 0
Rat(n, d) ==
    LET g == GCD(Abs(n), Abs(d))
        sg == IF d < 0 THEN -1 ELSE 1
    IN <<sg * (n \div g), sg * (d \div g)>>

NaN == <<0, 0>>                    \* np.nan
IsNaN(x) == x[2] = 0
Num(n) == <<n, 1>>

\* float arithmetic, NaN propagating
RAdd(x, y) == IF IsNaN(x) \/ IsNaN(y) THEN NaN
              ELSE Rat(x[1] * y[2] + y[1] * x[2], x[2] * y[2])
RSub(x, y) == IF IsNaN(x) \/ IsNaN(y) THEN NaN
              ELSE Rat(x[1] * y[2] - y[1] * x[2], x[2] * y[2])
RMul(x, y) == IF IsNaN(x) \/ IsNaN(y) THEN NaN
              ELSE Rat(x[1] * y[1], x[2] * y[2])
RDiv(x, y) == IF IsNaN(x) \/ IsNaN(y) THEN NaN
              ELSE Rat(x[1] * y[2], x[2] * y[1])
\* comparisons with NaN are false
RLt(x, y) == ~IsNaN(x) /\ ~IsNaN(y) /\ x[1] * y[2] < y[1] * x[2]

\* Series.round(2): to the nearest hundredth, ties to the even one
Round2(x) ==
    IF IsNaN(x) THEN NaN
    ELSE LET p == x[1] * 100
             q == x[2]
             f == p \div q
             r == p - f * q
             up == 2 * r > q \/ (2 * r = q /\ f % 2 = 1)
         IN Rat(IF up THEN f + 1 ELSE f, 100)

(***************************************************************************)
(* calculate-peer-review-grade.py: the tables                              *)
(***************************************************************************)
MaxTeamSize == 4                   \* slot 1 is self, slots 2-4 the teammates
Likert == 1..5                     \* the five questions Q1_x_1 .. Q1_x_5
NoSubmission == "**NO SUBMISSION**"
NaNCell == "<nan>"                 \* np.nan stored in a list of answers

StudentEmails == <<"s1@x.edu", "s2@x.edu", "s3@x.edu", "s4@x.edu", "s5@x.edu",
                   "s6@x.edu">>

\* groups_file after lines 85-88: the first a students are team A, the rest
\* team B, which is not the larger one
Roster(a) ==
    [k \in 1..MaxStudents |->
        [RecipientEmail |-> StudentEmails[k],
         RecipientLastName |-> "Doe", RecipientFirstName |-> "Jane",
         Team |-> IF k <= a THEN "A" ELSE "B"]]

Rosters == {Roster(a) : a \in {b \in 1..MaxTeamSize :
                                  b <= MaxStudents /\ MaxStudents - b <= b}}

\* lines 91-92: groupby('group_name').size()
TeamSize(roster, team) == Cardinality({k \in 1..Len(roster) : roster[k].Team = team})

\* merge(team_sizes, on='Team', how='left'): NaN for a team the roster lacks
TeamN(roster, team) ==
    IF TeamSize(roster, team) = 0 THEN NaN ELSE Num(TeamSize(roster, team))

\* The answers of one respondent, slot by slot: the texts of the CSV cells.
Slot(q1, q2) == [q1 |-> q1, q2 |-> q2]
Answers ==
    [top   |-> [x \in 1..MaxTeamSize |-> Slot(<<"5", "5", "5", "5", "5">>, "50")],
     mixed |-> <<Slot(<<"5", "5", "5", "5", "5">>, "40"),
                 Slot(<<"1", "2", "3", "4", "">>, "10"),
                 Slot(<<"4", "3", "", "2", "1">>, "100"),
                 Slot(<<"2", "", "4", "", "3">>, "25")>>,
     na    |-> <<Slot(<<"5", "5", "5", "5", "5">>, "40"),
                 Slot(<<"N/A", "3", "3", "3", "3">>, "30"),
                 Slot(<<"3", "3", "3", "3", "3">>, "N/A"),
                 Slot(<<"3", "3", "3", "3", "3">>, "30")>>]

\* float(v) of a cell text; the other texts raise ValueError
NumberOf == ("1" :> 1) @@ ("2" :> 2) @@ ("3" :> 3) @@ ("4" :> 4) @@ ("5" :> 5)
            @@ ("10" :> 10) @@ ("25" :> 25) @@ ("30" :> 30) @@ ("40" :> 40)
            @@ ("50" :> 50) @@ ("100" :> 100)
IsNumeric(v) == v \in DOMAIN NumberOf

\* the Team Member columns of the contact list: the teammates in roster order
RECURSIVE Teammates(_, _, _)
Teammates(roster, k, j) ==
    IF j > Len(roster) THEN <<>>
    ELSE IF j # k /\ roster[j].Team = roster[k].Team
         THEN <<roster[j].RecipientEmail>> \o Teammates(roster, k, j + 1)
         ELSE Teammates(roster, k, j + 1)

Pad3(s) == [d \in 1..3 |-> IF d <= Len(s) THEN s[d] ELSE ""]

\* one survey row of roster student k
Response(roster, k, answers, members) ==
    [RecipientEmail |-> roster[k].RecipientEmail,
     RecipientLastName |-> roster[k].RecipientLastName,
     RecipientFirstName |-> roster[k].RecipientFirstName,
     Team |-> roster[k].Team,
     tm |-> members,
     slots |-> answers,
     Q3 |-> "self evaluation"]

\* what a roster student handed in
ResponseKinds == {"none", "top", "mixed", "na", "unmatched", "twice"}

ResponsesOf(roster, k, kind) ==
    LET members == Pad3(Teammates(roster, k, 1))
    IN CASE kind = "none"      -> <<>>
         [] kind = "top"       -> <<Response(roster, k, Answers.top, members)>>
         [] kind = "mixed"     -> <<Response(roster, k, Answers.mixed, members)>>
         [] kind = "na"        -> <<Response(roster, k, Answers.na, members)>>
         [] kind = "unmatched" -> <<Response(roster, k, Answers.mixed, Pad3(<<>>))>>
         [] kind = "twice"     -> <<Response(roster, k, Answers.top, members),
                                    Response(roster, k, Answers.mixed, members)>>

RECURSIVE Survey(_, _, _)
Survey(roster, kinds, k) ==
    IF k > Len(roster) THEN <<>>
    ELSE ResponsesOf(roster, k, kinds[k]) \o Survey(roster, kinds, k + 1)

TeamMemberColumns == <<"Team Member 1", "Team Member 2", "Team Member 3">>

(***************************************************************************)
(* calculate-peer-review-grade.py: main                                    *)
(***************************************************************************)
\* lines 22-25: the first digit of the text, 0 for None
ExtractDigit(text) ==
    CASE text = "Team Member 1" -> 1
      [] text = "Team Member 2" -> 2
      [] text = "Team Member 3" -> 3
      [] OTHER -> 0

RECURSIVE FindSlotFrom(_, _, _)
\* lines 172-178: the first Team Member column holding the email gives x
FindSlotFrom(row, email, d) ==
    IF d > Len(TeamMemberColumns) THEN 0
    ELSE IF row.tm[d] = email /\ ExtractDigit(TeamMemberColumns[d]) # 0
         THEN ExtractDigit(TeamMemberColumns[d]) + 1
         ELSE FindSlotFrom(row, email, d + 1)

\* Mutant of FindSlot: the digit of the column is used as the slot, without
\* the 1 that skips the self slot.
FindSlotSameDigit(row, email) ==
    IF FindSlotFrom(row, email, 1) = 0 THEN 0 ELSE FindSlotFrom(row, email, 1) - 1

FindSlot(row, email) == FindSlotFrom(row, email, 1)

\* lines 190-195: result_row.get(column, np.nan)
GetQ1(row, cols, x, k) == IF x \in cols THEN row.slots[x].q1[k] ELSE NaNCell
GetQ2(row, cols, x)    == IF x \in cols THEN row.slots[x].q2 ELSE NaNCell

RECURSIVE IndicesFrom(_, _, _, _)
IndicesFrom(table, team, email, j) ==
    IF j > Len(table) THEN <<>>
    ELSE IF table[j].Team = team /\ table[j].RecipientEmail # email
         THEN <<j>> \o IndicesFrom(table, team, email, j + 1)
         ELSE IndicesFrom(table, team, email, j + 1)

\* Mutant of TeammateRows: the respondent's own row is not left out.
TeammateRowsWithSelf(table, team, email) ==
    SelectSeq([j \in 1..Len(table) |-> j], LAMBDA j : table[j].Team = team)

\* line 159: the rows of the same team by another respondent, by position
TeammateRows(table, team, email) == IndicesFrom(table, team, email, 1)

\* lines 118-144: one output row per survey row, its lists empty
InitialRow(roster, row) ==
    [Name |-> <<row.RecipientLastName, row.RecipientFirstName>>,
     Email |-> row.RecipientEmail,
     Team |-> row.Team,
     n |-> TeamN(roster, row.Team),
     tm |-> row.tm,
     Q1 |-> [k \in Likert |-> <<>>],
     Q2 |-> <<>>,
     Q3 |-> "",
     raters |-> <<>>,
     Q1_mean |-> [k \in Likert |-> NaN],
     Q2_mean |-> NaN,
     Q1_normalized |-> [k \in Likert |-> NaN],
     Q2_normalized |-> NaN,
     Q2_div5 |-> NaN,
     Q2_clamped |-> NaN,
     Q2_shifted |-> NaN,
     PeerEvaluationScore |-> NaN]

\* lines 152-156: the Q3 text of the student's own first survey row
SelfQ3(table, email) ==
    LET own == {j \in 1..Len(table) : table[j].RecipientEmail = email}
    IN IF own = {} THEN ""
       ELSE table[CHOOSE j \in own : \A m \in own : j <= m].Q3

\* lines 147-202: the body of the loop for one output row; raters records, for
\* each entry of the lists, the survey row and the slot it was read from
AggregateRow(table, cols, out) ==
    LET results == TeammateRows(table, out.Team, out.Email)
        x(m) == FindSlot(table[results[m]], out.Email)
    IN IF results = <<>>
       THEN [out EXCEPT !.Q3 = SelfQ3(table, out.Email)]
       ELSE [out EXCEPT
               !.Q3 = SelfQ3(table, out.Email),
               !.Q1 = [k \in Likert |->
                         [m \in 1..Len(results) |->
                            IF x(m) = 0 THEN NaNCell
                            ELSE GetQ1(table[results[m]], cols, x(m), k)]],
               !.Q2 = [m \in 1..Len(results) |->
                         IF x(m) = 0 THEN NaNCell
                         ELSE GetQ2(table[results[m]], cols, x(m))],
               !.raters = [m \in 1..Len(results) |->
                            [row |-> results[m], x |-> x(m)]]]

\* pd.isna(v)
IsNa(v) == v = NaNCell

\* line 209: the values float() is applied to
Kept(values) == SelectSeq(values, LAMBDA v : ~IsNa(v) /\ v # "")

RECURSIVE SumSeq(_)
SumSeq(values) ==
    IF values = <<>> THEN 0 ELSE NumberOf[Head(values)] + SumSeq(Tail(values))

\* line 209: float(v) raises ValueError on a text that is no number
MeanRaises(values) ==
    /\ values # <<>>
    /\ ~(\A k \in 1..Len(values) : IsNa(values[k]))
    /\ \E k \in 1..Len(Kept(values)) : ~IsNumeric(Kept(values)[k])

\* Mutant of calculate_mean: empty answers are left out of the sum but counted.
calculate_mean_counting_blanks(values) ==
    IF values = <<>> \/ \A k \in 1..Len(values) : IsNa(values[k]) THEN NaN
    ELSE IF Kept(values) = <<>> THEN Num(0)
    ELSE Rat(SumSeq(Kept(values)), Len(SelectSeq(values, LAMBDA v : ~IsNa(v))))

\* lines 205-212 (for lists on which float() does not raise)
calculate_mean(values) ==
    IF values = <<>> \/ \A k \in 1..Len(values) : IsNa(values[k]) THEN NaN
    ELSE IF Kept(values) = <<>> THEN NaN
    ELSE Rat(SumSeq(Kept(values)), Len(Kept(values)))

\* lines 222-226
Normalize(mean) == RAdd(RMul(mean, Num(10)), Num(50))

\* Mutant of Clamp: the lower bound is not applied.
ClampNoFloor(v) == IF RLt(Num(40), v) THEN Num(40) ELSE v

\* lines 231-232
Clamp(v) == IF RLt(v, Num(10)) THEN Num(10)
            ELSE IF RLt(Num(40), v) THEN Num(40)
            ELSE v

\* lines 233-234: (0.65 + 0.0225 c - 0.00025 c^2) * 100
Curve(c) ==
    RMul(RSub(RAdd(Rat(65, 100), RMul(Rat(225, 10000), c)),
              RMul(Rat(25, 100000), RMul(c, c))),
         Num(100))

\* Mutant of FinalScore: the five terms are averaged and left on the 0-100 scale.
FinalScoreAverage(normalized, shifted) ==
    Round2(RDiv(RAdd(RAdd(RAdd(RAdd(normalized[1], normalized[2]), normalized[3]),
                          normalized[4]), shifted),
                Num(5)))

\* lines 237-245
FinalScore(normalized, shifted) ==
    Round2(RAdd(RDiv(RAdd(RAdd(RAdd(RAdd(normalized[1], normalized[2]), normalized[3]),
                               normalized[4]), shifted),
                     Num(500)),
                Rat(5, 100)))

\* lines 214-245 for one row
ScoreRow(out) ==
    LET means  == [k \in Likert |-> calculate_mean(out.Q1[k])]
        mean2  == calculate_mean(out.Q2)
        norm   == [k \in Likert |-> Normalize(means[k])]
        norm2  == RMul(mean2, out.n)
        div5   == RDiv(norm2, Num(5))
        clamped == Clamp(div5)
        shifted == Curve(clamped)
    IN [out EXCEPT !.Q1_mean = means, !.Q2_mean = mean2,
                   !.Q1_normalized = norm, !.Q2_normalized = norm2,
                   !.Q2_div5 = div5, !.Q2_clamped = clamped, !.Q2_shifted = shifted,
                   !.PeerEvaluationScore = FinalScore(norm, shifted)]

\* lines 254-297: the row of a roster student who is not in the survey
MissingRow(roster, student) ==
    [Name |-> <<student.RecipientLastName, student.RecipientFirstName>>,
     Email |-> student.RecipientEmail,
     Team |-> student.Team,
     n |-> TeamN(roster, student.Team),
     tm |-> Pad3(<<>>),
     Q1 |-> [k \in Likert |-> <<>>],
     Q2 |-> <<>>,
     Q3 |-> NoSubmission,
     raters |-> <<>>,
     Q1_mean |-> [k \in Likert |-> NaN],
     Q2_mean |-> NaN,
     Q1_normalized |-> [k \in Likert |-> NaN],
     Q2_normalized |-> NaN,
     Q2_div5 |-> NaN,
     Q2_clamped |-> NaN,
     Q2_shifted |-> NaN,
     PeerEvaluationScore |-> NaN]

\* Mutant of MissingStudents: nobody is added after the survey rows.
MissingStudentsDropped(roster, out) == SelectSeq(roster, LAMBDA st : FALSE)

\* lines 248-254: the roster rows whose email is in no output row
MissingStudents(roster, out) ==
    SelectSeq(roster, LAMBDA st :
        \A k \in 1..Len(out) : out[k].Email # st.RecipientEmail)

\* line 303
FinalRow(out) ==
    [Name |-> out.Name, Email |-> out.Email, Team |-> out.Team,
     PeerEvaluationScore |-> out.PeerEvaluationScore, Q3 |-> out.Q3]

\* lines 118-144
InitOutput ==
    /\ ppc = "start"
    /\ output' = [j \in 1..Len(dt) |-> InitialRow(all_students, dt[j])]
    /\ ppc' = "init"
    /\ UNCHANGED <<all_students, dt, survey_columns, final_output>>

\* lines 146-202
Aggregate ==
    /\ ppc = "init"
    /\ output' = [j \in 1..Len(output) |-> AggregateRow(dt, survey_columns, output[j])]
    /\ ppc' = "aggregated"
    /\ UNCHANGED <<all_students, dt, survey_columns, final_output>>

\* lines 204-245: a ValueError of float() ends the run with a traceback
Score ==
    /\ ppc = "aggregated"
    /\ IF \E j \in 1..Len(output) :
             \/ MeanRaises(output[j].Q2)
             \/ \E k \in Likert : MeanRaises(output[j].Q1[k])
       THEN /\ ppc' = "crashed"
            /\ output' = output
       ELSE /\ ppc' = "scored"
            /\ output' = [j \in 1..Len(output) |-> ScoreRow(output[j])]
    /\ UNCHANGED <<all_students, dt, survey_columns, final_output>>

\* lines 247-300
AddMissing ==
    /\ ppc = "scored"
    /\ LET missing == MissingStudents(all_students, output)
       IN output' = output \o [m \in 1..Len(missing) |->
                                  MissingRow(all_students, missing[m])]
    /\ ppc' = "merged"
    /\ UNCHANGED <<all_students, dt, survey_columns, final_output>>

\* lines 302-306
Save ==
    /\ ppc = "merged"
    /\ final_output' = [j \in 1..Len(output) |-> FinalRow(output[j])]
    /\ ppc' = "done"
    /\ UNCHANGED <<all_students, dt, survey_columns, output>>

\* lines 82-116: the roster and the survey have been read
PeerInit ==
    /\ ppc = "start"
    /\ all_students \in Rosters
    /\ \E kinds \in [1..MaxStudents -> ResponseKinds] :
         dt = Survey(all_students, kinds, 1)
    /\ survey_columns \in {1..(MaxTeamSize - 1), 1..MaxTeamSize}
    /\ output = <<>>
    /\ final_output = <<>>
    /\ InviteIdle
    /\ GradeIdle

PeerNext ==
    \/ (InitOutput /\ UNCHANGED <<inviteVars, gradeVars>>)
    \/ (Aggregate /\ UNCHANGED <<inviteVars, gradeVars>>)
    \/ (Score /\ UNCHANGED <<inviteVars, gradeVars>>)
    \/ (AddMissing /\ UNCHANGED <<inviteVars, gradeVars>>)
    \/ (Save /\ UNCHANGED <<inviteVars, gradeVars>>)

PeerSpec == PeerInit /\ [][PeerNext]_vars

(***************************************************************************)
(* calculate-final-score.py                                                *)
(***************************************************************************)
\* ---- the two tables read at lines 5-6 ----
GradeLogins == {"s1@x.edu", "s2@x.edu"}

\* A row of the score table: a student without a submission (the marker, no
\* score), a scored student, a respondent nobody rated (score NaN).
ScoreRows ==
    {[Email |-> e, Q3 |-> k.Q3, PeerEvaluationScore |-> k.s] :
        e \in GradeLogins,
        k \in {[Q3 |-> NoSubmission, s |-> NaN],
               [Q3 |-> "good team", s |-> Rat(105, 100)],
               [Q3 |-> "", s |-> NaN]}}
ScoreTables == UNION {[1..n -> ScoreRows] : n \in 0..MaxRows}

\* A row of the gradebook; grade is the cell of the assignment column that
\* lines 12-15 select.  The first two rows of an export are rows like any other
\* to the code.
GradeTexts == {"88.25", "90"}
GradebookRows == {[login |-> l, grade |-> g] : l \in GradeLogins, g \in GradeTexts}
Gradebooks == UNION {[1..n -> GradebookRows] : n \in 0..(MaxRows + 2)}

\* float(text) of a grade cell
FloatOf(text) == IF text = "88.25" THEN Rat(8825, 100) ELSE Num(90)

\* str(x) of a float rounded to two places: "94.5", "92.66", "0.0", "nan"
Str(x) ==
    IF IsNaN(x) THEN "nan"
    ELSE LET cents == (x[1] * 100) \div x[2]
             whole == cents \div 100
             frac == cents % 100
         IN ToString(whole) \o "." \o
              (IF frac % 10 = 0 THEN ToString(frac \div 10)
               ELSE IF frac < 10 THEN "0" \o ToString(frac)
               ELSE ToString(frac))

\* Mutant of MultiplierFor: the marker is not looked at.
MultiplierForIgnoringMarker(row) == row.PeerEvaluationScore

\* line 10
MultiplierFor(row) ==
    IF row.Q3 = NoSubmission THEN Rat(6, 10) ELSE row.PeerEvaluationScore

NoMultipliers == [e \in {} |-> NaN]

\* lines 8-10: a later row of an email replaces an earlier one
RECURSIVE BuildMultipliers(_, _, _)
BuildMultipliers(rows, k, em) ==
    IF k > Len(rows) THEN em
    ELSE BuildMultipliers(rows, k + 1,
            [e \in (DOMAIN em) \cup {rows[k].Email} |->
                IF e = rows[k].Email THEN MultiplierFor(rows[k]) ELSE em[e]])

\* email_multiplier.get(login, 0)
Get(em, login) == IF login \in DOMAIN em THEN em[login] ELSE Num(0)

\* lines 19-22 for the row at position flag
MergedRow(row, flag, em) ==
    IF flag <= 2 THEN row
    ELSE [row EXCEPT !.grade =
             Str(Round2(RMul(FloatOf(row.grade), Get(em, row.login))))]

NoFile == <<"no file">>

\* lines 8-10
Multipliers ==
    /\ gpc = "start"
    /\ email_multiplier' = BuildMultipliers(multiplier_df, 1, NoMultipliers)
    /\ gpc' = "multipliers"
    /\ UNCHANGED <<input_file, multiplier_df, main_df, output_file>>

\* lines 17-22
Merge ==
    /\ gpc = "multipliers"
    /\ main_df' = [k \in 1..Len(main_df) |-> MergedRow(main_df[k], k, email_multiplier)]
    /\ gpc' = "merged"
    /\ UNCHANGED <<input_file, multiplier_df, email_multiplier, output_file>>

\* line 23
SaveGrades ==
    /\ gpc = "merged"
    /\ output_file' = main_df
    /\ gpc' = "done"
    /\ UNCHANGED <<input_file, multiplier_df, main_df, email_multiplier>>

\* lines 5-6: the gradebook and the score table have been read
GradeInit ==
    /\ gpc = "start"
    /\ input_file \in Gradebooks
    /\ main_df = input_file
    /\ multiplier_df \in ScoreTables
    /\ email_multiplier = NoMultipliers
    /\ output_file = NoFile
    /\ InviteIdle
    /\ PeerIdle

GradeNext ==
    \/ (Multipliers /\ UNCHANGED <<inviteVars, peerVars>>)
    \/ (Merge /\ UNCHANGED <<inviteVars, peerVars>>)
    \/ (SaveGrades /\ UNCHANGED <<inviteVars, peerVars>>)

GradeSpec == GradeInit /\ [][GradeNext]_vars

(***************************************************************************)
(* Properties of invite_students.py                                        *)
(***************************************************************************)
IsPost(e)  == e.ev = "post"
IsSleep(e) == e.ev = "sleep"
IsLog(e)   == e.ev = "log"
Posts  == SelectSeq(trace, IsPost)
Sleeps == SelectSeq(trace, IsSleep)
Logs   == SelectSeq(trace, IsLog)
Asked(q) == \E p \in 1..Len(prompts) : prompts[p].q = q
CountAsked(q) == Cardinality({p \in 1..Len(prompts) : prompts[p].q = q})
ErrorLabels == {"error_422", "not_found", "forbidden", "other_error",
                "network_error", "unexpected_error"}

\* C1 (state part): in a real run the POSTs issued so far are one per processed
\* email, in the order of the list, and the summary is printed only when every
\* email of the list has been processed.
C1_LoopInv ==
    /\ i <= Len(emails)
    /\ Len(Logs) = i
    /\ \A k \in 1..Len(Logs) : Logs[k].i = k /\ Logs[k].email = emails[k]
    /\ ~dry_run =>
          /\ Len(Posts) = i
          /\ \A k \in 1..Len(Posts) : Posts[k].i = k /\ Posts[k].email = emails[k]
    /\ summary # NoSummary => i = Len(emails) /\ summary.total = Len(emails)

\* C1: the emails are processed in list order with at most one POST each, a
\* failed call does not stop the loop, and a loop that has started always
\* reaches the summary with every email processed.
C1_InOrderNoRetryReachesSummary ==
    /\ []C1_LoopInv
    /\ (pc = "invite") ~> (pc = "summary" /\ i = Len(emails))

\* C1 witness: a real run printed its summary after a failed call on the first
\* email was followed by the POST for the second.
C1_Witness ==
    /\ pc = "summary"
    /\ ~dry_run
    /\ Len(emails) >= 2
    /\ Len(Logs) >= 2
    /\ Logs[1].label \in ErrorLabels
    /\ Len(Posts) = Len(emails)

\* C2: the three counters partition the processed emails: they sum to the
\* number of emails processed so far, and to len(emails) in the summary.
C2_CountersPartition ==
    /\ success_count + already_member_count + error_count = i
    /\ success_count >= 0 /\ already_member_count >= 0 /\ error_count >= 0
    /\ summary # NoSummary =>
          /\ summary.success + summary.already + summary.errors = Len(emails)
          /\ summary.total = Len(emails)

\* C2 witness: a summary in which an exception and a duplicate were counted.
C2_Witness ==
    /\ summary # NoSummary
    /\ summary.already = 1
    /\ summary.errors = 1
    /\ \E k \in 1..Len(Logs) : Logs[k].label \in {"network_error", "unexpected_error"}

\* C3 as stated: the dry-run flag changes nothing but the HTTP call, so a dry
\* run issues no POST, counts every email as a success, and otherwise does
\* what a real run does: it asks for confirmation before the loop and sleeps
\* after each email.
C3_DryRunOnlySkipsPost ==
    (dry_run /\ pc \in {"invite", "summary"}) =>
        /\ Posts = <<>>
        /\ success_count = i /\ already_member_count = 0 /\ error_count = 0
        /\ Asked("confirm")
        /\ Len(Sleeps) = i

\* C3 amended: a dry run issues no POST, logs and counts every email as a
\* success, and ends with exit code zero once it has reached the loop; besides
\* the HTTP call the flag also skips the confirmation prompt and the sleep.
C3_DryRun ==
    dry_run =>
        /\ Posts = <<>>
        /\ Sleeps = <<>>
        /\ ~Asked("confirm")
        /\ \A k \in 1..Len(Logs) : Logs[k].label = "would_invite"
        /\ success_count = i /\ already_member_count = 0 /\ error_count = 0
        /\ summary # NoSummary =>
              /\ summary.success = Len(emails)
              /\ summary.already = 0 /\ summary.errors = 0
              /\ pc = "done" => exit_code = 0

\* C3 witness: a completed dry run over two emails.
C3_Witness ==
    /\ dry_run
    /\ pc = "done"
    /\ exit_code = 0
    /\ summary # NoSummary
    /\ summary.success = 2

\* the log line printed for the POST at position p of the trace
LogOf(p) == trace[p + 1]
CountLabel(L) == Cardinality({k \in 1..Len(Logs) : Logs[k].label \in L})

\* C4: every response is put in one class by its status: 201 is a success,
\* 422 mentioning 'already' a duplicate, 404 and 403 an error of their own,
\* anything else an error; only a 201 raises the success counter of a real run.
C4_Classification ==
    /\ \A p \in 1..Len(trace) : IsPost(trace[p]) =>
          /\ p < Len(trace) /\ IsLog(LogOf(p)) /\ LogOf(p).i = trace[p].i
          /\ (trace[p].status = 201) <=> (LogOf(p).label = "invited")
          /\ (trace[p].status = 422 /\ trace[p].body \in {"msg_already", "err_already"})
                <=> (LogOf(p).label = "already")
          /\ trace[p].status = 404 => LogOf(p).label = "not_found"
          /\ trace[p].status = 403 => LogOf(p).label = "forbidden"
          /\ LogOf(p).label \in {"invited", "already"} \cup ErrorLabels
    /\ ~dry_run =>
          /\ success_count = CountLabel({"invited"})
          /\ already_member_count = CountLabel({"already"})
          /\ error_count = CountLabel(ErrorLabels)

\* C4 witness: a real run that saw a duplicate and then a 200 that is no 201.
C4_Witness ==
    /\ pc = "summary"
    /\ Len(Posts) = 2
    /\ Posts[1].status = 422 /\ Posts[1].body = "err_already"
    /\ Posts[2].status = 200
    /\ summary.already = 1 /\ summary.errors = 1 /\ summary.success = 0

\* C5: between the POSTs of two consecutive emails there is a sleep.
C5_SleepBetweenPosts ==
    \A p \in 1..Len(trace), q \in 1..Len(trace) :
        (p < q /\ IsPost(trace[p]) /\ IsPost(trace[q])) =>
            \E m \in (p + 1)..(q - 1) : IsSleep(trace[m])

\* no invitation call was made
NoPost == Posts = <<>>

\* C6: the script ends with a non-zero exit code and no invitation call when
\* the credential is missing, the file cannot be read, the email column is not
\* found after the one retry prompt, or no email is extracted; a run that got
\* to its summary ends with exit code zero.
C6_ExitCodes ==
    /\ CountAsked("column") <= 1
    /\ pc = "done" =>
          /\ github_token = "" => exit_code = 1 /\ NoPost
          /\ (github_token # "" /\ org_name # "" /\ df = NoDf) => exit_code = 1 /\ NoPost
          /\ (df # NoDf /\ DefaultEmailColumn \notin df.columns) => CountAsked("column") = 1
          /\ (\E p \in 1..Len(prompts) :
                 prompts[p].q = "column" /\ prompts[p].a \notin df.columns)
                => exit_code = 1 /\ NoPost
          /\ emails = <<>> => exit_code = 1 /\ NoPost
          /\ summary # NoSummary => exit_code = 0
          /\ exit_code \in {0, 1}
    /\ pc \in {"auth", "confirm", "invite", "summary"} => emails # <<>>
    /\ pc # "done" => exit_code = -1

\* C6 witness: the column was there but held no email, and the run ended 1.
C6_Witness ==
    /\ pc = "done"
    /\ exit_code = 1
    /\ df # NoDf
    /\ DefaultEmailColumn \in df.columns
    /\ Len(df.login) = 2
    /\ emails = <<>>

(***************************************************************************)
(* Properties of calculate-peer-review-grade.py                            *)
(***************************************************************************)
Aggregated == ppc \in {"aggregated", "scored", "crashed", "merged", "done"}
Scored     == ppc \in {"scored", "merged", "done"}
Merged     == ppc \in {"merged", "done"}

\* the survey rows by a teammate of the student: same team, another respondent
RatingRows(team, email) ==
    {q \in 1..Len(dt) : dt[q].Team = team /\ dt[q].RecipientEmail # email}
OwnRows(email) == {q \in 1..Len(dt) : dt[q].RecipientEmail = email}
RosterTeam(email) ==
    all_students[CHOOSE k \in 1..Len(all_students) :
                     all_students[k].RecipientEmail = email].Team
RaterSet(out) == {out.raters[m].row : m \in 1..Len(out.raters)}

\* the cell of survey row q the lists take for a student found in slot x
CellQ1(q, x, k) ==
    IF x = 0 \/ x \notin survey_columns THEN NaNCell ELSE dt[q].slots[x].q1[k]
CellQ2(q, x) ==
    IF x = 0 \/ x \notin survey_columns THEN NaNCell ELSE dt[q].slots[x].q2

\* C7 as stated: every roster student, with or without a survey row of their
\* own, has an aggregate made of exactly the survey rows of their teammates.
C7_EveryRosterStudentAggregated ==
    ppc = "done" =>
        \A s \in 1..Len(all_students) :
            \E k \in 1..Len(output) :
                /\ output[k].Email = all_students[s].RecipientEmail
                /\ RaterSet(output[k]) =
                       RatingRows(all_students[s].Team, all_students[s].RecipientEmail)

\* C7 amended: for a student with a survey row of their own the lists hold
\* exactly one entry per survey row of the same team by another respondent,
\* read from that row and never from the self slot or the student's own row;
\* a roster student without a survey row gets empty lists.
C7_TeammateRowsOnly ==
    Aggregated =>
        /\ Len(output) >= Len(dt)
        /\ \A j \in 1..Len(dt) :
             LET out == output[j]
             IN /\ out.Email = dt[j].RecipientEmail
                /\ out.Team = RosterTeam(out.Email)
                /\ RaterSet(out) = RatingRows(out.Team, out.Email)
                /\ Len(out.raters) = Cardinality(RatingRows(out.Team, out.Email))
                /\ Len(out.Q2) = Len(out.raters)
                /\ \A m \in 1..Len(out.raters) :
                     LET q == out.raters[m].row
                         x == out.raters[m].x
                     IN /\ dt[q].RecipientEmail # out.Email
                        /\ x # 1
                        /\ x # 0 => dt[q].tm[x - 1] = out.Email
                        /\ out.Q2[m] = CellQ2(q, x)
                        /\ \A k \in Likert :
                             /\ Len(out.Q1[k]) = Len(out.raters)
                             /\ out.Q1[k][m] = CellQ1(q, x, k)
        /\ \A j \in (Len(dt) + 1)..Len(output) :
             /\ OwnRows(output[j].Email) = {}
             /\ output[j].raters = <<>>
             /\ output[j].Q2 = <<>>
             /\ \A k \in Likert : output[j].Q1[k] = <<>>

\* C7 witness: one student is rated by two teammates, another did not submit
\* although a teammate rated them.
C7_Witness ==
    /\ ppc = "done"
    /\ \E j \in 1..Len(dt) :
         /\ Len(output[j].raters) = 2
         /\ \A m \in 1..2 : output[j].raters[m].x >= 2
    /\ \E j \in (Len(dt) + 1)..Len(output) :
         RatingRows(output[j].Team, output[j].Email) # {}

RowsOf(table, email) == {k \in 1..Len(table) : table[k].Email = email}

\* C8 as stated: the output holds exactly one row per roster student, whatever
\* the survey table.
C8_OneRowPerRosterStudent ==
    ppc = "done" =>
        /\ Len(final_output) = Len(all_students)
        /\ \A s \in 1..Len(all_students) :
             Cardinality(RowsOf(final_output, all_students[s].RecipientEmail)) = 1

\* C8 amended: the output holds one row per survey row, then one row per
\* roster student without a survey row, marked NO SUBMISSION and with no
\* score; so no roster student is dropped, and a student has exactly one row
\* unless they answered the survey more than once.
C8_RowsOfOutput ==
    ppc = "done" =>
        /\ Len(final_output) >= Len(dt)
        /\ \A j \in 1..Len(dt) :
             /\ final_output[j].Email = dt[j].RecipientEmail
             /\ final_output[j].Q3 # NoSubmission
        /\ \A s \in 1..Len(all_students) :
             LET email == all_students[s].RecipientEmail
                 rows  == RowsOf(final_output, email)
             IN /\ rows # {}
                /\ Cardinality(OwnRows(email)) <= 1 => Cardinality(rows) = 1
                /\ Cardinality(OwnRows(email)) >= 1 =>
                       Cardinality(rows) = Cardinality(OwnRows(email))
                /\ OwnRows(email) = {} =>
                       \A k \in rows :
                           /\ k > Len(dt)
                           /\ final_output[k].Q3 = NoSubmission
                           /\ IsNaN(final_output[k].PeerEvaluationScore)
                           /\ final_output[k].Team = all_students[s].Team
        /\ \A k \in 1..Len(final_output) :
             \E s \in 1..Len(all_students) :
                 final_output[k].Email = all_students[s].RecipientEmail

\* C8 witness: a saved table with a student who did not submit and a student
\* who submitted twice.
C8_Witness ==
    /\ ppc = "done"
    /\ \E s \in 1..Len(all_students) : OwnRows(all_students[s].RecipientEmail) = {}
    /\ \E s \in 1..Len(all_students) :
         Cardinality(OwnRows(all_students[s].RecipientEmail)) = 2

\* the entries of a list that are a rating: neither NaN nor an empty answer
Rated(values) == {m \in 1..Len(values) : values[m] # NaNCell /\ values[m] # ""}

RECURSIVE SumOver(_, _)
SumOver(values, K) ==
    IF K = {} THEN 0
    ELSE LET m == CHOOSE m \in K : TRUE
         IN NumberOf[values[m]] + SumOver(values, K \ {m})

MeanIs(mean, values) ==
    IF Rated(values) = {}
    THEN IsNaN(mean) /\ mean # Num(0)
    ELSE /\ ~IsNaN(mean)
         /\ mean[1] * Cardinality(Rated(values)) = SumOver(values, Rated(values)) * mean[2]

\* C9: the mean of a dimension is the sum of the k ratings received divided by
\* k, missing entries left out of both, and it is missing, not 0, when k = 0.
C9_MeanOfRatings ==
    Scored =>
        \A j \in 1..Len(output) :
            /\ \A k \in Likert : MeanIs(output[j].Q1_mean[k], output[j].Q1[k])
            /\ MeanIs(output[j].Q2_mean, output[j].Q2)

\* C9 witness: one list with a rating next to an empty answer, and one list
\* that holds an empty answer only.
C9_Witness ==
    /\ Scored
    /\ \E j \in 1..Len(output), k \in Likert :
         /\ Len(output[j].Q1[k]) = 2
         /\ Cardinality(Rated(output[j].Q1[k])) = 1
         /\ ~IsNaN(output[j].Q1_mean[k])
    /\ \E j \in 1..Len(output), k \in Likert :
         /\ output[j].Q1[k] = <<"">>
         /\ IsNaN(output[j].Q1_mean[k])

\* two teams of two, every student answered once: 5 on every question and 50
\* points for the teammate
Scenario ==
    /\ Len(all_students) = 4
    /\ \A s \in 1..4 : TeamSize(all_students, all_students[s].Team) = 2
    /\ Len(dt) = 4
    /\ \A j \in 1..4 :
         /\ dt[j].RecipientEmail = all_students[j].RecipientEmail
         /\ dt[j].Team = all_students[j].Team
         /\ \E s \in 1..4 : s # j /\ dt[j].tm = Pad3(<<all_students[s].RecipientEmail>>)
         /\ \A x \in 1..MaxTeamSize :
              dt[j].slots[x] = Slot(<<"5", "5", "5", "5", "5">>, "50")

ScenarioSteps(out) ==
    /\ \A k \in 1..4 : out.Q1_normalized[k] = Num(100)
    /\ out.Q2_normalized = Num(100)
    /\ out.Q2_div5 = Num(20)
    /\ out.Q2_clamped = Num(20)
    /\ out.Q2_shifted = Num(100)

\* C10 as stated: in the scenario every step gives 100, 100, 20, 20, 100 and
\* the final score is 100.0.
C10_ScenarioScore100 ==
    (Scored /\ Scenario) =>
        \A j \in 1..Len(output) :
            /\ ScenarioSteps(output[j])
            /\ output[j].PeerEvaluationScore = Num(100)

\* C10 amended: in the scenario every step gives 100, 100, 20, 20, 100 and the
\* final score is (100+100+100+100+100)/500 + 0.05 = 1.05.
C10_ScenarioScore ==
    (Scored /\ Scenario) =>
        \A j \in 1..Len(output) :
            /\ ScenarioSteps(output[j])
            /\ output[j].PeerEvaluationScore = Rat(105, 100)

\* C10 witness: the scenario has been scored and saved.
C10_Witness ==
    /\ ppc = "done"
    /\ Scenario
    /\ Len(final_output) = 4
    /\ \A j \in 1..4 : final_output[j].PeerEvaluationScore = Rat(105, 100)


\* the curve of lines 233-234 on c = cn/cd: (2600 cd^2 + 90 cn cd - cn^2) / (40 cd^2)
IsCurveOf(shifted, c) ==
    /\ ~IsNaN(shifted)
    /\ shifted[1] * 40 * c[2] * c[2]
          = shifted[2] * (2600 * c[2] * c[2] + 90 * c[1] * c[2] - c[1] * c[1])

\* C11: with a defined mean allocation, mean * team size / 5 is raised to 10
\* when below 10, lowered to 40 when above 40 and kept when in between, and
\* the curve is applied to that value, which lies in [10, 40].
C11_AllocationClamp ==
    Scored =>
        \A j \in 1..Len(output) :
            LET out == output[j]
                vn  == out.Q2_mean[1] * out.n[1]
                vd  == out.Q2_mean[2] * out.n[2] * 5
                c   == out.Q2_clamped
            IN (~IsNaN(out.Q2_mean) /\ ~IsNaN(out.n)) =>
                  /\ vn < 10 * vd => c = Num(10)
                  /\ vn > 40 * vd => c = Num(40)
                  /\ (vn >= 10 * vd /\ vn <= 40 * vd) => c = Rat(vn, vd)
                  /\ ~IsNaN(c) /\ c[1] >= 10 * c[2] /\ c[1] <= 40 * c[2]
                  /\ IsCurveOf(out.Q2_shifted, c)

\* C11 witness: one scored table with an allocation raised to 10, one lowered
\* to 40 and one strictly in between left as it is.
C11_Witness ==
    /\ Scored
    /\ \E j \in 1..Len(output) :
         /\ RLt(output[j].Q2_div5, Num(10)) /\ output[j].Q2_clamped = Num(10)
    /\ \E j \in 1..Len(output) :
         /\ RLt(Num(40), output[j].Q2_div5) /\ output[j].Q2_clamped = Num(40)
    /\ \E j \in 1..Len(output) :
         /\ RLt(Num(10), output[j].Q2_div5) /\ RLt(output[j].Q2_div5, Num(40))
         /\ output[j].Q2_clamped = output[j].Q2_div5


\* the entries of a list that float() can parse
Parsed(values) == {m \in 1..Len(values) : IsNumeric(values[m])}

\* C12: a rating cell that is no number is treated as missing: the run is not
\* ended by it, and the means are taken over the cells that are numbers.
C12_UnparseableIsMissing ==
    /\ ppc # "crashed"
    /\ Scored =>
          \A j \in 1..Len(output), k \in Likert :
              IF Parsed(output[j].Q1[k]) = {}
              THEN IsNaN(output[j].Q1_mean[k])
              ELSE output[j].Q1_mean[k][1] * Cardinality(Parsed(output[j].Q1[k]))
                      = SumOver(output[j].Q1[k], Parsed(output[j].Q1[k]))
                           * output[j].Q1_mean[k][2]


\* the Team Member fields d of survey row q that hold the email
MemberFields(q, email) == {d \in 1..Len(dt[q].tm) : dt[q].tm[d] = email}
Least(D) == CHOOSE d \in D : \A e \in D : d <= e

\* the entries of a student's lists that a rater did contribute: the student
\* was found in a Team Member field and the columns of that slot exist
Contributed(out) ==
    {m \in 1..Len(out.raters) :
        /\ MemberFields(out.raters[m].row, out.Email) # {}
        /\ Least(MemberFields(out.raters[m].row, out.Email)) + 1 \in survey_columns}

MeanOver(mean, values, K) ==
    IF K = {} THEN IsNaN(mean)
    ELSE /\ ~IsNaN(mean)
         /\ mean[1] * Cardinality(K) = SumOver(values, K) * mean[2]

\* C13: a rater's row whose field Team Member d holds the student's email
\* gives the student the answers of slot d + 1; a row with no such field, or
\* whose slot has no columns, gives NaN on every dimension, and the means are
\* those of the other raters' answers.
C13_SlotLookup ==
    /\ Aggregated =>
          \A j \in 1..Len(dt) :
              \A m \in 1..Len(output[j].raters) :
                  LET out == output[j]
                      q == out.raters[m].row
                      x == out.raters[m].x
                      D == MemberFields(q, out.Email)
                  IN /\ D = {} => x = 0
                     /\ D # {} => x = Least(D) + 1
                     /\ IF m \in Contributed(out)
                        THEN /\ out.Q2[m] = dt[q].slots[Least(D) + 1].q2
                             /\ \A k \in Likert :
                                  out.Q1[k][m] = dt[q].slots[Least(D) + 1].q1[k]
                        ELSE /\ out.Q2[m] = NaNCell
                             /\ \A k \in Likert : out.Q1[k][m] = NaNCell
    /\ Scored =>
          \A j \in 1..Len(dt) :
              LET out == output[j]
              IN /\ MeanOver(out.Q2_mean, out.Q2,
                             {m \in Contributed(out) : out.Q2[m] # ""})
                 /\ \A k \in Likert :
                      MeanOver(out.Q1_mean[k], out.Q1[k],
                               {m \in Contributed(out) : out.Q1[k][m] # ""})

\* C13 witness: a scored table in which one rater found the student in Team
\* Member 2 and gave slot 3, one rater's row did not name the student, and one
\* rater's slot had no columns, next to a rating that counts.
C13_Witness ==
    /\ Scored
    /\ \E j \in 1..Len(dt) : \E m \in 1..Len(output[j].raters) :
         /\ output[j].raters[m].x = 3
         /\ m \in Contributed(output[j])
    /\ \E j \in 1..Len(dt) : \E m \in 1..Len(output[j].raters) :
         /\ output[j].raters[m].x = 0
         /\ Contributed(output[j]) # {}
         /\ ~IsNaN(output[j].Q1_mean[1])
    /\ \E j \in 1..Len(dt) : \E m \in 1..Len(output[j].raters) :
         /\ output[j].raters[m].x = 4
         /\ 4 \notin survey_columns


(***************************************************************************)
(* The confirmation gate of invite_students.py                             *)
(***************************************************************************)
\* the answers given to the confirmation prompt
ConfirmationAnswers ==
    {prompts[k].a : k \in {n \in 1..Len(prompts) : prompts[n].q = "confirm"}}

SaidYes(a) == StripLower(a) = "yes" \/ StripLower(a) = "y"

\* C15: in a run without --dry-run a POST has been issued only if the
\* authentication succeeded and the confirmation was answered yes or y; after
\* any other answer the process has ended with exit code 0 and no POST; and a
\* step in which the authentication fails ends the process with a non-zero
\* exit code and no POST.
C15_ConfirmationGate ==
    /\ [](/\ (~dry_run /\ ~NoPost) =>
                /\ user # NoUser
                /\ \E a \in ConfirmationAnswers : SaidYes(a)
          /\ (\E a \in ConfirmationAnswers : ~SaidYes(a)) =>
                /\ pc = "done"
                /\ exit_code = 0
                /\ NoPost)
    /\ [][(pc = "auth" /\ user' = NoUser) =>
             /\ pc' = "done"
             /\ exit_code' > 0
             /\ NoPost']_vars

\* C15 witness: a run without --dry-run with students to invite that was
\* authenticated and then cancelled at the prompt.
C15_Witness ==
    /\ ~dry_run
    /\ emails # <<>>
    /\ user # NoUser
    /\ \E a \in ConfirmationAnswers : ~SaidYes(a)
    /\ pc = "done"

(***************************************************************************)
(* Properties of calculate-final-score.py                                  *)
(***************************************************************************)
GradesMerged == gpc \in {"merged", "done"}

\* the rows of the score table that list the login
ScoreRowsOf(login) ==
    {r \in 1..Len(multiplier_df) : multiplier_df[r].Email = login}

\* the text of round(old_grade * m, 2)
Regraded(old_grade, m) == Str(Round2(RMul(FloatOf(old_grade), m)))

\* C14: after the merge the first two gradebook rows are as they were read,
\* and every later row has the grade round(old * m, 2), where m is 0.6 for a
\* student listed with the no-submission marker, the PeerEvaluationScore for a
\* student listed without it, and 0 for a login the score table does not list.
C14_GradebookMerge ==
    GradesMerged =>
        /\ Len(main_df) = Len(input_file)
        /\ gpc = "done" => output_file = main_df
        /\ \A k \in 1..Len(input_file) :
             LET old == input_file[k]
                 new == main_df[k]
                 S == ScoreRowsOf(old.login)
             IN /\ new.login = old.login
                /\ k <= 2 => new = old
                /\ (k > 2 /\ S = {}) => new.grade = Regraded(old.grade, Num(0))
                /\ (k > 2 /\ S # {} /\ \A r \in S : multiplier_df[r].Q3 = NoSubmission)
                      => new.grade = Regraded(old.grade, Rat(6, 10))
                /\ \A r \in S :
                     (/\ k > 2
                      /\ \A t \in S : /\ multiplier_df[t].Q3 # NoSubmission
                                      /\ multiplier_df[t].PeerEvaluationScore
                                            = multiplier_df[r].PeerEvaluationScore)
                      => new.grade = Regraded(old.grade, multiplier_df[r].PeerEvaluationScore)

\* C14 witness: a written gradebook of four rows whose first two rows belong to
\* a scored student and are unchanged, whose third row is 88.25 of a student
\* with the marker, now 52.95, and whose fourth row is 88.25 of the scored
\* student, now 92.66; and one whose third row is 90 of an unlisted login, 0.0.
C14_Witness ==
    /\ gpc = "done"
    /\ \/ /\ Len(multiplier_df) = 2
          /\ multiplier_df[1] = [Email |-> "s1@x.edu", Q3 |-> "good team",
                                 PeerEvaluationScore |-> Rat(105, 100)]
          /\ multiplier_df[2] = [Email |-> "s2@x.edu", Q3 |-> NoSubmission,
                                 PeerEvaluationScore |-> NaN]
          /\ input_file = << [login |-> "s1@x.edu", grade |-> "90"],
                             [login |-> "s1@x.edu", grade |-> "88.25"],
                             [login |-> "s2@x.edu", grade |-> "88.25"],
                             [login |-> "s1@x.edu", grade |-> "88.25"] >>
          /\ output_file = << [login |-> "s1@x.edu", grade |-> "90"],
                              [login |-> "s1@x.edu", grade |-> "88.25"],
                              [login |-> "s2@x.edu", grade |-> "52.95"],
                              [login |-> "s1@x.edu", grade |-> "92.66"] >>
       \/ /\ Len(input_file) = 3
          /\ ScoreRowsOf(input_file[3].login) = {}
          /\ multiplier_df # <<>>
          /\ input_file[3].grade = "90"
          /\ output_file[3].grade = "0.0"

====
